---- MODULE Spec2Model ----
(***************************************************************************)
(* A model of the GitHub search crawler: GithubSearchCrawler (crawlers.py) *)
(* with its parameter schema (settings.py), its item type (items.py) and   *)
(* the output writer (utils.py).  One behaviour is one crawler object:     *)
(* construction, one call of process(), and later calls of close().        *)
(***************************************************************************)
EXTENDS Integers, Sequences, FiniteSets, TLC

VARIABLES
    params,        \* the document read from the parameters file
    fs,            \* the output path on disk: parent directory, file, content
    pc,            \* where the crawler is in its life
    error,         \* the exception that ended the run, "none" while there is none
    stage,         \* the step that raised it
    keywords,      \* self.keywords
    type_,         \* self.type_
    proxies,       \* self.proxies
    items,         \* self.items
    session,       \* self._session: "none", "open" or "closed"
    closeCount,    \* how many times ClientSession.close() ran
    selected,      \* what the last read of the proxy property returned
    requests,      \* the URLs requested on the session, in order
    searchStatus,  \* status of the search response, 0 while there is none
    tasks,         \* the local list `tasks` of process()
    data,          \* the anchors of the search page handed to the extractor
    links,         \* the local list `links` of the running extractor
    idx,           \* position of the loop of parse_repositories
    inflight,      \* the links whose detail request awaits its response
    maxInFlight,   \* the largest number of detail requests ever in flight at once
    detail,        \* per link, the status of its detail response
    writeCalls     \* how many times write_items was called

vars == <<params, fs, pc, error, stage, keywords, type_, proxies, items, session,
          closeCount, selected, requests, searchStatus, tasks, data, links, idx,
          inflight, maxInFlight, detail, writeCalls>>

----------------------------------------------------------------------------
(* Bounds of the model *)

MaxProxies == 2
MaxAnchors == 3

----------------------------------------------------------------------------
(* settings.py *)

SUPPORTED_GITHUB_TYPES == {"Repositories", "Issues", "Wikis"}
HOST == "https://github.com"

(* JSON values of the parameters document *)
Absent == [t |-> "absent", s |-> "", a |-> <<>>]
Str(x) == [t |-> "str", s |-> x, a |-> <<>>]
Num == [t |-> "num", s |-> "", a |-> <<>>]
Arr(seq) == [t |-> "arr", s |-> "", a |-> seq]
StrEl(x) == [t |-> "str", s |-> x]
NumEl == [t |-> "num", s |-> ""]

IsStringArray(v) ==
    /\ v.t = "arr"
    /\ \A i \in 1..Len(v.a) : v.a[i].t = "str"

\* jsonschema.validate(instance=p, schema=PARAMS_SCHEMA) raises nothing
PARAMS_SCHEMA(p) ==
    /\ p.kind = "object"
    /\ p.keywords.t # "absent"
    /\ p.type.t # "absent"
    /\ IsStringArray(p.keywords)
    /\ Len(p.keywords.a) >= 1
    /\ (p.proxies.t # "absent" => IsStringArray(p.proxies))
    /\ p.type.t = "str"

----------------------------------------------------------------------------
(* The inputs *)

ProxyPool ==
    <<"194.126.37.94:8080", "13.78.125.167:8080", "10.0.0.1:3128", "10.0.0.2:3128">>

Strings(pool, k) == [i \in 1..k |-> StrEl(pool[i])]

KeywordsValues ==
    { Absent, Str("python"), Arr(<<NumEl>>), Arr(<<>>),
      Arr(<<StrEl("python"), StrEl("django rest")>>) }

TypeValues ==
    {Absent, Num, Str("Users"), Str("repositories")}
        \cup {Str(t) : t \in SUPPORTED_GITHUB_TYPES}

ProxiesValues ==
    {Absent, Str("194.126.37.94:8080"), Arr(<<NumEl>>)}
        \cup {Arr(Strings(ProxyPool, k)) : k \in 0..MaxProxies}

NoFile == [kind |-> "nofile", keywords |-> Absent, type |-> Absent, proxies |-> Absent]
NonObject == [kind |-> "array", keywords |-> Absent, type |-> Absent, proxies |-> Absent]

Documents ==
    {NoFile, NonObject}
        \cup [kind : {"object"}, keywords : KeywordsValues, type : TypeValues,
              proxies : ProxiesValues]

\* attribute values are kept as token sequences; `x in value` is containment
Contains(needle, hay) ==
    \E i \in 1..(Len(hay) - Len(needle) + 1) :
        SubSeq(hay, i, i + Len(needle) - 1) = needle

NoAttr == <<>>
\* a URL reference: scheme and host ("" when relative), then the path
Ref(netloc, path) == [netloc |-> netloc, path |-> path]
Rooted == {"/octo/crawler", "/explore", "/login", "/octo/crawler/issues/7"}
Anchor(hasHref, href, cls, hydro) ==
    [hasHref |-> hasHref, href |-> href, class |-> cls, hydro |-> hydro]

AnchorKinds ==
    { Anchor(TRUE, Ref("", "/octo/crawler"), "v-align-middle",
             <<"{event_type:", "search_result.click", ",result:1}">>),
      Anchor(TRUE, Ref("https://github.com", "/octo/crawler/issues/7"), "",
             <<"{event_type:", "search_result.click", ",result:2}">>),
      Anchor(TRUE, Ref("", "/explore"), "v-align-middle",
             <<"{event_type:", "nav.click", "}">>),
      Anchor(FALSE, Ref("", ""), "v-align-middle", <<"search_result.click">>),
      Anchor(TRUE, Ref("", "/login"), "", NoAttr) }

Pages == UNION {[1..n -> AnchorKinds] : n \in 0..MaxAnchors}

\* a repository page: the rel=author element and the data-ga-click elements,
\* the text of each a sequence of lines and each line a sequence of tokens
Stat(ga, lines) == [ga |-> ga, lines |-> lines]
Body(hasAuthor, owner, elements) ==
    [hasAuthor |-> hasAuthor, owner |-> owner, elements |-> elements]

RepoBody ==
    Body(TRUE, "octo",
         << Stat(<<"Repository,", "language", "stats", "search,Go">>,
                 << <<"Go">>, <<"80.0", "%">> >>),
            Stat(<<"Header,", "go", "to", "home">>, << <<"Home">> >>),
            Stat(<<"Repository,", "language", "stats", "search,Python">>,
                 << <<"Python">>, <<"20.0", "%">> >>) >>)
BareRepoBody == Body(TRUE, "mona", <<>>)
NotFoundBody == Body(FALSE, "", <<>>)
OddStatsBody ==
    Body(TRUE, "hubot", << Stat(<<"language", "stats">>, << <<"Other">> >>) >>)

Statuses == {200, 404, 503}

DetailResponses ==
    { [status |-> 200, body |-> RepoBody],
      [status |-> 200, body |-> OddStatsBody],
      [status |-> 404, body |-> NotFoundBody],
      [status |-> 404, body |-> BareRepoBody] }

\* a dict is a function from its keys; {} is the function of no key
EmptyDict == <<>>
OldContent == <<[url |-> "https://github.com/old/run", extras |-> EmptyDict]>>

\* the output path before the run.  Opening a file that exists asks nothing of
\* its directory, so an existing file is placed in a writable one.
FileSystems ==
    { [parent |-> "missing", file |-> "absent", content |-> <<>>],
      [parent |-> "readonly", file |-> "absent", content |-> <<>>],
      [parent |-> "writable", file |-> "absent", content |-> <<>>],
      [parent |-> "writable", file |-> "readonly", content |-> OldContent],
      [parent |-> "writable", file |-> "writable", content |-> OldContent] }

----------------------------------------------------------------------------
(* items.py and the pure helpers of crawlers.py *)

\* urllib.parse.urljoin(base, ref) for a base with an empty path
urljoin(base, ref) ==
    IF ref.netloc # "" THEN ref.netloc \o ref.path
    ELSE IF ref.path \in Rooted THEN base \o ref.path
    ELSE base \o "/" \o ref.path

\* GithubSearchItem(url=href).to_dict(): __post_init__ resolves the url
GithubSearchItem(href) ==
    [url |-> urljoin(HOST, href), extras |-> EmptyDict]

RECURSIVE Join(_, _)
Join(sep, seq) ==
    IF seq = <<>> THEN ""
    ELSE IF Len(seq) = 1 THEN seq[1]
    ELSE seq[1] \o sep \o Join(sep, Tail(seq))

\* str.lower() on the search types
lower(s) ==
    CASE s = "Repositories" -> "repositories"
      [] s = "Issues" -> "issues"
      [] s = "Wikis" -> "wikis"
      [] OTHER -> s

\* urllib.parse.quote_plus(s, safe='+') on the keywords of the pool: a space
\* becomes '+', letters stay
quote_plus(s) ==
    CASE s = "django rest" -> "django+rest"
      [] OTHER -> s

\* the search_url property; quoting works character by character and '+' is
\* safe, so quoting the joined string is joining the quoted keywords
search_url(kws, t) ==
    urljoin(HOST,
            Ref("", "search?q=" \o Join("+", [i \in 1..Len(kws) |-> quote_plus(kws[i])])
                        \o "&type=" \o lower(t)))

\* random.choice replaced by "take the first"
random_choice_first(seq) == {seq[1]}

\* what random.choice(self.proxies) can return
random_choice(seq) == {seq[i] : i \in 1..Len(seq)}

\* the values the proxy property can return for a proxy list
proxy(ps) ==
    IF ps # <<>> THEN {"https://" \o p : p \in random_choice(ps)} ELSE {"None"}

\* validate_params without its check of the search type
validate_params_schema_only(p) ==
    IF ~PARAMS_SCHEMA(p) THEN "ValidationError" ELSE "none"

\* validate_params: the exception it raises, "none" when it returns
validate_params(p) ==
    IF ~PARAMS_SCHEMA(p) THEN "ValidationError"
    ELSE IF p.type.s \notin SUPPORTED_GITHUB_TYPES THEN "InvalidSearchType"
    ELSE "none"

\* the dict with Wikis sent to the repository parser
coro_wikis_as_repositories ==
    [t \in {"Repositories", "Issues", "Wikis"} |->
        IF t = "Issues" THEN "parse_data_hydro_click_elements"
        ELSE "parse_repositories"]

\* the dict `coro` of process()
coro ==
    [t \in {"Repositories", "Issues", "Wikis"} |->
        IF t = "Repositories" THEN "parse_repositories"
        ELSE "parse_data_hydro_click_elements"]

\* the status test loosened to "not a server error"
IsOK_below_500(status) == status < 500

\* response.status == HTTPStatus.OK
IsOK(status) == status = 200

\* match_condition without the test of the attribute's value
match_condition_any_value(a) ==
    /\ a.hasHref
    /\ a.hydro # NoAttr

\* match_condition of parse_data_hydro_click_elements
match_condition(a) ==
    /\ a.hasHref
    /\ a.hydro # NoAttr
    /\ Contains(<<"search_result.click">>, a.hydro)

\* data.find_all(attrs={'class': 'v-align-middle'}, href=True)
find_all_links(page) ==
    SelectSeq(page, LAMBDA a : a.class = "v-align-middle" /\ a.hasHref)

\* stat.text.strip().replace('%', '').split('\n'): each line without its '%'
StatParts(stat) ==
    [i \in 1..Len(stat.lines) |->
        Join("", SelectSeq(stat.lines[i], LAMBDA c : c # "%"))]

\* get_extras: the exception it raises ("none" when it returns) and its value
get_extras(body) ==
    LET language_elements ==
            SelectSeq(body.elements, LAMBDA e : Contains(<<"stats">>, e.ga))
        pairs == [i \in 1..Len(language_elements) |-> StatParts(language_elements[i])]
        keys == {pairs[i][1] : i \in 1..Len(pairs)}
        last(k) == CHOOSE i \in 1..Len(pairs) :
                      /\ pairs[i][1] = k
                      /\ \A j \in 1..Len(pairs) : pairs[j][1] = k => j <= i
    IN  IF ~body.hasAuthor
        THEN [error |-> "AttributeError", extras |-> EmptyDict]
        ELSE IF \E i \in 1..Len(pairs) : Len(pairs[i]) # 2
        THEN [error |-> "ValueError", extras |-> EmptyDict]
        ELSE [error |-> "none",
              extras |-> [owner |-> body.owner,
                          language_stats |-> [k \in keys |-> pairs[last(k)][2]]]]

\* _resolve_default_path(settings.OUTPUT_FILE_PATH, None): os.path.exists decides
resolve_default_path(f) ==
    IF f.file = "absent" THEN "FileNotFoundError" ELSE "none"

Max(a, b) == IF a >= b THEN a ELSE b

----------------------------------------------------------------------------
(* The crawler *)

Init ==
    /\ params \in Documents
    /\ fs \in FileSystems
    /\ pc = "init"
    /\ error = "none"
    /\ stage = "none"
    /\ keywords = <<>>
    /\ type_ = ""
    /\ proxies = <<>>
    /\ items = <<>>
    /\ session = "none"
    /\ closeCount = 0
    /\ selected = "unread"
    /\ requests = <<>>
    /\ searchStatus = 0
    /\ tasks = <<>>
    /\ data = <<>>
    /\ links = <<>>
    /\ idx = 0
    /\ inflight = {}
    /\ maxInFlight = 0
    /\ detail = <<>>
    /\ writeCalls = 0

\* an exception leaves the constructor or process()
Raise(e, st) ==
    /\ pc' = "failed"
    /\ error' = e
    /\ stage' = st

\* GithubSearchCrawler.__init__
Construct ==
    /\ pc = "init"
    /\ IF params.kind = "nofile"
       THEN /\ Raise("FileNotFoundError", "read")
            /\ UNCHANGED <<keywords, type_, proxies>>
       ELSE IF validate_params(params) # "none"
       THEN /\ Raise(validate_params(params), "validate")
            /\ UNCHANGED <<keywords, type_, proxies>>
       ELSE /\ keywords' = [i \in 1..Len(params.keywords.a) |-> params.keywords.a[i].s]
            /\ type_' = params.type.s
            /\ proxies' = IF params.proxies.t = "absent" THEN <<>>
                          ELSE [i \in 1..Len(params.proxies.a) |-> params.proxies.a[i].s]
            /\ pc' = "constructed"
            /\ UNCHANGED <<error, stage>>
    /\ UNCHANGED <<params, fs, items, session, closeCount, selected, requests,
                   searchStatus, tasks, data, links, idx, inflight, maxInFlight,
                   detail, writeCalls>>

\* a caller reads the proxy property
ReadProxy ==
    /\ pc = "constructed"
    /\ selected' \in proxy(proxies)
    /\ UNCHANGED <<params, fs, pc, error, stage, keywords, type_, proxies, items,
                   session, closeCount, requests, searchStatus, tasks, data, links,
                   idx, inflight, maxInFlight, detail, writeCalls>>

\* process() up to its first await on the network: setup(), then the search GET
\* with proxy=self.proxy
ProcessStart ==
    /\ pc = "constructed"
    /\ tasks' = <<>>
    /\ session' = "open"
    /\ selected' \in proxy(proxies)
    /\ requests' = Append(requests, search_url(keywords, type_))
    /\ pc' = "search"
    /\ UNCHANGED <<params, fs, error, stage, keywords, type_, proxies, items,
                   closeCount, searchStatus, data, links, idx, inflight,
                   maxInFlight, detail, writeCalls>>

\* the search response arrives: the body of `async with ... as response`
SearchResponse ==
    /\ pc = "search"
    /\ \E status \in Statuses :
        /\ searchStatus' = status
        /\ IF IsOK(status)
           THEN IF type_ \in DOMAIN coro
                THEN /\ \E page \in Pages : data' = page
                     /\ tasks' = Append(tasks, coro[type_])
                     /\ pc' = "task"
                     /\ UNCHANGED <<error, stage>>
                ELSE /\ Raise("KeyError", "search")
                     /\ UNCHANGED <<data, tasks>>
           ELSE /\ Raise("RequestProcessError", "search")
                /\ UNCHANGED <<data, tasks>>
    /\ UNCHANGED <<params, fs, keywords, type_, proxies, items, session, closeCount,
                   selected, requests, links, idx, inflight, maxInFlight, detail,
                   writeCalls>>

\* the transport raises instead of answering the search GET
SearchClientError ==
    /\ pc = "search"
    /\ Raise("ClientError", "search")
    /\ UNCHANGED <<params, fs, keywords, type_, proxies, items, session, closeCount,
                   selected, requests, searchStatus, tasks, data, links, idx,
                   inflight, maxInFlight, detail, writeCalls>>

\* the task runs parse_data_hydro_click_elements(soup) to its end
parse_data_hydro_click_elements ==
    /\ pc = "task"
    /\ tasks[1] = "parse_data_hydro_click_elements"
    /\ LET matched == SelectSeq(data, match_condition)
       IN  /\ links' = matched
           /\ items' = items \o [i \in 1..Len(matched) |->
                                    GithubSearchItem(matched[i].href)]
    /\ pc' = "gathered"
    /\ UNCHANGED <<params, fs, error, stage, keywords, type_, proxies, session,
                   closeCount, selected, requests, searchStatus, tasks, data, idx,
                   inflight, maxInFlight, detail, writeCalls>>

\* the task enters parse_repositories(soup)
parse_repositories ==
    /\ pc = "task"
    /\ tasks[1] = "parse_repositories"
    /\ links' = find_all_links(data)
    /\ idx' = 1
    /\ pc' = "repos"
    /\ UNCHANGED <<params, fs, error, stage, keywords, type_, proxies, items, session,
                   closeCount, selected, requests, searchStatus, tasks, data,
                   inflight, maxInFlight, detail, writeCalls>>

\* the loop turned into a fan-out: a request is made while others are in flight
RepoFetch_fan_out ==
    /\ pc = "repos"
    /\ idx <= Len(links)
    /\ requests' = Append(requests, GithubSearchItem(links[idx].href).url)
    /\ inflight' = inflight \cup {idx}
    /\ maxInFlight' = Max(maxInFlight, Cardinality(inflight) + 1)
    /\ idx' = idx + 1
    /\ UNCHANGED <<params, fs, pc, error, stage, keywords, type_, proxies, items,
                   session, closeCount, selected, searchStatus, tasks, data, links,
                   detail, writeCalls>>

\* one turn of `for a in links`: the item is built and its page requested
RepoFetch ==
    /\ pc = "repos"
    /\ idx <= Len(links)
    /\ inflight = {}
    /\ requests' = Append(requests, GithubSearchItem(links[idx].href).url)
    /\ inflight' = inflight \cup {idx}
    /\ maxInFlight' = Max(maxInFlight, Cardinality(inflight) + 1)
    /\ idx' = idx + 1
    /\ UNCHANGED <<params, fs, pc, error, stage, keywords, type_, proxies, items,
                   session, closeCount, selected, searchStatus, tasks, data, links,
                   detail, writeCalls>>

\* the detail response arrives: text(), get_extras(text), the append
RepoResponse ==
    /\ pc = "repos"
    /\ \E i \in inflight, r \in DetailResponses :
        /\ inflight' = inflight \ {i}
        /\ detail' = Append(detail, [link |-> i, status |-> r.status])
        /\ IF get_extras(r.body).error # "none"
           THEN /\ Raise(get_extras(r.body).error, "extract")
                /\ UNCHANGED items
           ELSE /\ items' = Append(items,
                                   [GithubSearchItem(links[i].href)
                                       EXCEPT !.extras = get_extras(r.body).extras])
                /\ UNCHANGED <<pc, error, stage>>
    /\ UNCHANGED <<params, fs, keywords, type_, proxies, session, closeCount,
                   selected, requests, searchStatus, tasks, data, links, idx,
                   maxInFlight, writeCalls>>

\* the transport raises instead of answering a detail GET
RepoClientError ==
    /\ pc = "repos"
    /\ \E i \in inflight : inflight' = inflight \ {i}
    /\ Raise("ClientError", "extract")
    /\ UNCHANGED <<params, fs, keywords, type_, proxies, items, session, closeCount,
                   selected, requests, searchStatus, tasks, data, links, idx,
                   maxInFlight, detail, writeCalls>>

\* the loop of parse_repositories ends and gather(*tasks) returns
RepoFinish ==
    /\ pc = "repos"
    /\ idx > Len(links)
    /\ inflight = {}
    /\ pc' = "gathered"
    /\ UNCHANGED <<params, fs, error, stage, keywords, type_, proxies, items, session,
                   closeCount, selected, requests, searchStatus, tasks, data, links,
                   idx, inflight, maxInFlight, detail, writeCalls>>

\* close(): the session is closed unless it is closed already
close ==
    IF session # "closed"
    THEN /\ session' = "closed"
         /\ closeCount' = closeCount + 1
    ELSE UNCHANGED <<session, closeCount>>

\* process() going on to the write without closing
ProcessClose_skipped ==
    /\ pc = "gathered"
    /\ pc' = "closed"
    /\ UNCHANGED <<params, fs, error, stage, keywords, type_, proxies, items,
                   session, closeCount, selected, requests, searchStatus, tasks,
                   data, links, idx, inflight, maxInFlight, detail, writeCalls>>

\* `await self.close()` of process()
ProcessClose ==
    /\ pc = "gathered"
    /\ close
    /\ pc' = "closed"
    /\ UNCHANGED <<params, fs, error, stage, keywords, type_, proxies, items,
                   selected, requests, searchStatus, tasks, data, links, idx,
                   inflight, maxInFlight, detail, writeCalls>>

\* `await write_items(self.items)` of process()
write_items ==
    /\ pc = "closed"
    /\ writeCalls' = writeCalls + 1
    /\ IF resolve_default_path(fs) # "none"
       THEN /\ Raise(resolve_default_path(fs), "write")
            /\ UNCHANGED fs
       ELSE IF fs.file = "readonly"
       THEN /\ Raise("PermissionError", "write")
            /\ UNCHANGED fs
       ELSE /\ fs' = [fs EXCEPT !.content = items]
            /\ pc' = "done"
            /\ UNCHANGED <<error, stage>>
    /\ UNCHANGED <<params, keywords, type_, proxies, items, session, closeCount,
                   selected, requests, searchStatus, tasks, data, links, idx,
                   inflight, maxInFlight, detail>>

\* a caller calls close() after process() has returned or raised
CloseCall ==
    /\ pc \in {"done", "failed"}
    /\ session # "none"
    /\ close
    /\ UNCHANGED <<params, fs, pc, error, stage, keywords, type_, proxies, items,
                   selected, requests, searchStatus, tasks, data, links, idx,
                   inflight, maxInFlight, detail, writeCalls>>

Next ==
    \/ Construct
    \/ ReadProxy
    \/ ProcessStart
    \/ SearchResponse
    \/ SearchClientError
    \/ parse_data_hydro_click_elements
    \/ parse_repositories
    \/ RepoFetch
    \/ RepoResponse
    \/ RepoClientError
    \/ RepoFinish
    \/ ProcessClose
    \/ write_items
    \/ CloseCall

Spec == Init /\ [][Next]_vars

----------------------------------------------------------------------------
(* Properties *)

HYDRO == "parse_data_hydro_click_elements"
REPOS == "parse_repositories"
Untouched == fs \in FileSystems

\* the document meets the schema, said field by field
KeywordsOK(p) ==
    /\ p.keywords.t = "arr"
    /\ Len(p.keywords.a) >= 1
    /\ \A i \in DOMAIN p.keywords.a : p.keywords.a[i].t = "str"
TypeOK(p) == p.type.t = "str"
ProxiesOK(p) ==
    \/ p.proxies.t = "absent"
    \/ /\ p.proxies.t = "arr"
       /\ \A i \in DOMAIN p.proxies.a : p.proxies.a[i].t = "str"
Conforms(p) == p.kind = "object" /\ KeywordsOK(p) /\ TypeOK(p) /\ ProxiesOK(p)

\* C1: once the constructor has validated the document, a conforming document
\* with a supported type raised nothing in validation; a document whose keywords
\* or type is missing or ill-typed raised ValidationError; a conforming document
\* with an unsupported type raised InvalidSearchType; and a document that does
\* not conform never raised InvalidSearchType (the schema is decided first).
C1_ValidateParams ==
    (pc # "init" /\ params.kind # "nofile") =>
        /\ (Conforms(params) /\ params.type.s \in {"Repositories", "Issues", "Wikis"})
              => (stage # "validate" /\ type_ = params.type.s)
        /\ (params.kind # "object" \/ ~KeywordsOK(params) \/ ~TypeOK(params))
              => (stage = "validate" /\ error = "ValidationError")
        /\ (Conforms(params) /\ params.type.s \notin {"Repositories", "Issues", "Wikis"})
              => (stage = "validate" /\ error = "InvalidSearchType")
        /\ ~Conforms(params) => error = "ValidationError"

C1_Witness ==
    /\ pc = "failed"
    /\ error = "InvalidSearchType"
    /\ params.type = Str("Users")
    /\ params.proxies.t = "arr"

\* C2: once the search request has answered with a status other than 200, the
\* run has failed with RequestProcessError, no extractor task exists, the
\* aggregate is empty, write_items was never called and the output path is as
\* it was; and an extractor task exists only after a 200.
C2_Non200Aborts ==
    /\ searchStatus \notin {0, 200} =>
          /\ pc = "failed"
          /\ error = "RequestProcessError"
          /\ tasks = <<>>
          /\ items = <<>>
          /\ links = <<>>
          /\ writeCalls = 0
          /\ Untouched
    /\ tasks # <<>> => searchStatus = 200

C2_Witness ==
    /\ searchStatus = 503
    /\ error = "RequestProcessError"
    /\ session = "open"

\* the extractor task of the run has run to its end
ExtractorFinished ==
    /\ Len(tasks) = 1
    /\ inflight = {}
    /\ tasks[1] = REPOS => idx > Len(links)

\* C3: write_items is called at most once, and only when the extractor task has
\* finished without error and the session is closed; a run that failed in
\* reading, validation, the search request or extraction never called it and
\* left the output path as it was.
C3_WriteOnceAfterClose ==
    /\ writeCalls <= 1
    /\ writeCalls = 1 =>
          /\ session = "closed"
          /\ ExtractorFinished
          /\ stage \in {"none", "write"}
    /\ stage \in {"read", "validate", "search", "extract"} =>
          /\ writeCalls = 0
          /\ Untouched

C3_Witness ==
    /\ writeCalls = 1
    /\ pc = "done"
    /\ tasks = <<REPOS>>
    /\ Len(items) >= 2

\* C4: when the run has ended, whichever way, a session that was acquired has
\* been closed exactly once.
C4_ClosedWhenRunEnds ==
    (pc \in {"done", "failed"} /\ session # "none") =>
        (session = "closed" /\ closeCount = 1)

\* C5: a call of write_items with the parent directory of the destination
\* present and writable (and no read-only file in the way) succeeds and leaves
\* the whole aggregate in the file, whether or not the file existed.
C5_WriteSucceeds ==
    (writeCalls = 1 /\ fs.parent = "writable" /\ fs.file # "readonly") =>
        (pc = "done" /\ fs.file = "writable" /\ fs.content = items)

\* the anchors the claim C6 speaks of: an href, and a data-hydro-click value
\* holding "search_result.click"
Tracked(a) ==
    /\ a.hasHref
    /\ \E k \in DOMAIN a.hydro : a.hydro[k] = "search_result.click"
TrackedAt == {i \in DOMAIN data : Tracked(data[i])}
Rank(i) == Cardinality({j \in TrackedAt : j <= i})

\* C6: after parse_data_hydro_click_elements has run, the aggregate holds one
\* item per tracked anchor of the page and no other, in page order, and the
\* only request of the run is the search request.
C6_HydroClickItems ==
    (tasks = <<HYDRO>> /\ pc # "task") =>
        /\ Len(items) = Cardinality(TrackedAt)
        /\ \A i \in TrackedAt : items[Rank(i)] = GithubSearchItem(data[i].href)
        /\ Len(requests) = 1

C6_Witness ==
    /\ tasks = <<HYDRO>>
    /\ pc = "gathered"
    /\ Len(data) = 3
    /\ Tracked(data[1])
    /\ ~Tracked(data[2])
    /\ Tracked(data[3])
    /\ data[1] # data[3]
    /\ Len(items) = 2

\* C7: at most one extractor task is ever created; it is created exactly when
\* the search answered 200; it is parse_repositories for Repositories and
\* parse_data_hydro_click_elements for Issues and for Wikis; and the lookup of
\* the type never fails.
C7_ExtractorByType ==
    /\ Len(tasks) <= 1
    /\ Len(tasks) = 1 <=> searchStatus = 200
    /\ error # "KeyError"
    /\ tasks # <<>> =>
          /\ type_ = "Repositories" => tasks[1] = REPOS
          /\ type_ \in {"Issues", "Wikis"} => tasks[1] = HYDRO
          /\ type_ \in {"Repositories", "Issues", "Wikis"}
    /\ pc = "repos" => type_ = "Repositories"

C7_Witness ==
    /\ tasks = <<HYDRO>>
    /\ type_ = "Wikis"
    /\ pc = "gathered"
    /\ items # <<>>

\* the list the document configured
Configured ==
    IF params.proxies.t = "absent" THEN <<>>
    ELSE [i \in DOMAIN params.proxies.a |-> params.proxies.a[i].s]

\* C8: a read of the proxy property returns None when no proxy is configured,
\* and "https://" followed by a configured proxy otherwise; every configured
\* proxy can be the result of the next read, whatever the last read returned;
\* and the list stays the configured one.
C8_ProxyChoice ==
    /\ selected # "unread" =>
          IF Configured = <<>> THEN selected = "None"
          ELSE \E i \in DOMAIN Configured : selected = "https://" \o Configured[i]
    /\ pc = "constructed" =>
          /\ proxies = Configured
          /\ \A i \in DOMAIN Configured :
                /\ ENABLED (ReadProxy /\ selected' = "https://" \o Configured[i])
                /\ ENABLED (ProcessStart /\ selected' = "https://" \o Configured[i])
          /\ Configured = <<>> => ~ENABLED (ReadProxy /\ selected' # "None")
    /\ pc \notin {"init", "failed", "constructed"} => proxies = Configured

C8_Witness ==
    /\ pc = "constructed"
    /\ Len(proxies) = 2
    /\ selected = "https://" \o proxies[2]

C10_DetailStatusChecked ==
    \A k \in DOMAIN detail :
        detail[k].status # 200 =>
            /\ pc = "failed"
            /\ error = "RequestProcessError"
            /\ Len(items) < k

====
